---- MODULE Spec2Model ----
(***************************************************************************)
(* Portfolio Balancer: the Holding / Portfolio model of                    *)
(* portfolio_balancer.pyw (derived allocation fields, save/load, the       *)
(* undo/redo history) and the PortfolioBalancer window handlers that       *)
(* drive it.                                                               *)
(*                                                                         *)
(* Numbers: quantities, prices and target allocations are integers;        *)
(* real_allocation and deviation are exact rationals <<n, d>> in lowest    *)
(* terms (Python computes them in binary floating point; the model is the  *)
(* exact arithmetic the floats approximate).                               *)
(* Python list positions are 0-based, TLA+ sequences 1-based: the Python   *)
(* expression history[history_index] is history[history_index + 1] here.   *)
(***************************************************************************)
EXTENDS Integers, Sequences, FiniteSets, TLC

VARIABLES
    portfolio,      \* the Portfolio object: its seven fields
    files,          \* the file system: path -> file content
    name_edit,      \* PortfolioBalancer.name_edit text
    currency_combo, \* PortfolioBalancer.currency_combo current text
    last,           \* the operation that ran last: <<operation, exception its
                    \* Portfolio call raised ("none" if it returned)>>
    steps,          \* the number of operations that ran so far
    pre_cursor,     \* <<history_index, len(history)>> before the last operation
    dirty,          \* persisted fields were written since the last save or load
    undo_run,       \* bookkeeping of "N mutations, then N undos" runs
    call            \* the last reallocate, rebalance, suggest_invest or
                    \* Holding.update_price call: its arguments and the list it
                    \* returned, for update_price the ticker its error names
                    \* (both <<>> after any other operation)

vars == <<portfolio, files, name_edit, currency_combo, last, steps,
          pre_cursor, dirty, undo_run, call>>

----------------------------------------------------------------------------
(* Bounds of the model *)

MaxHoldings == 2     \* holdings per portfolio
MaxSteps    == 4     \* operations in one behaviour

Tickers        == {"AAA", "BBB"}
HoldingNames   == {"Acme"}
Allocations    == {0, 50}
Quantities     == {0, 1}
Prices         == {2}                     \* what the price lookup may return
PortfolioNames == {"My Portfolio", "Fund"}
SavePaths      == {"p.json"}
Paths          == SavePaths \cup {"missing.json", "garbage.json",
                                  "nocurrency.json", "badholding.json"}
Currencies     == {"USD", "EUR", "GBP"}   \* the keys of currency_symbols

NoPath == "None"     \* file_path = None
LookupFails == 0     \* outcome of a price lookup that raises

----------------------------------------------------------------------------
(* Exact rationals *)

RECURSIVE Gcd(_, _)
Gcd(a, b) == IF b = 0 THEN a ELSE Gcd(b, a % b)

Abs(a) == IF a < 0 THEN -a ELSE a

\* the outcome of a division by zero (Python raises ZeroDivisionError); every
\* operation on it yields it again
Fault == <<0, 0>>

Rat(n, d) ==
    LET g == Gcd(Abs(n), Abs(d))
        s == IF d < 0 THEN -1 ELSE 1
    IN  IF d = 0 THEN Fault ELSE <<(s * n) \div g, (s * d) \div g>>

Zero == <<0, 1>>
FromInt(i) == <<i, 1>>
RatAdd(x, y) == Rat(x[1] * y[2] + y[1] * x[2], x[2] * y[2])
RatSub(x, y) == Rat(x[1] * y[2] - y[1] * x[2], x[2] * y[2])

RatLess(x, y) == x[1] * y[2] < y[1] * x[2]
\* x / i for an integer i > 0
RatOver(x, i) == Rat(x[1], x[2] * i)

RECURSIVE SumSeq(_)
SumSeq(s) == IF s = <<>> THEN 0 ELSE Head(s) + SumSeq(Tail(s))

RECURSIVE RatSumSeq(_)
RatSumSeq(s) == IF s = <<>> THEN Zero ELSE RatAdd(Head(s), RatSumSeq(Tail(s)))

MapSeq(s, Op(_)) == [i \in 1..Len(s) |-> Op(s[i])]

----------------------------------------------------------------------------
(* Holding *)

Holding(name, ticker, quantity, allocation, market_price) ==
    [name            |-> name,
     ticker          |-> ticker,
     quantity        |-> quantity,
     allocation      |-> allocation,
     market_price    |-> market_price,
     total_value     |-> market_price * quantity,
     real_allocation |-> Zero,
     deviation       |-> Zero]

\* update_price without line 29: the price is set, total_value is not
update_price_without_total(h, outcome) ==
    IF outcome = LookupFails THEN h ELSE [h EXCEPT !.market_price = outcome]

\* Holding.update_price with the lookup's outcome: a price, or LookupFails.
\* On failure the ValueError leaves the holding as it was.
update_price(h, outcome) ==
    IF outcome = LookupFails
    THEN h
    ELSE [h EXCEPT !.market_price = outcome,
                   !.total_value  = outcome * h.quantity]

\* to_dict without line 39: the price is not written
to_dict_without_price(h) ==
    [name       |-> h.name,
     ticker     |-> h.ticker,
     quantity   |-> h.quantity,
     allocation |-> h.allocation]

to_dict(h) ==
    [name         |-> h.name,
     ticker       |-> h.ticker,
     quantity     |-> h.quantity,
     allocation   |-> h.allocation,
     market_price |-> h.market_price]

RequiredKeys == {"name", "ticker", "quantity", "allocation"}

\* from_dict raises KeyError when a required key is absent
from_dict_ok(data) == RequiredKeys \subseteq DOMAIN data

from_dict(data) ==
    Holding(data.name, data.ticker, data.quantity, data.allocation,
            IF "market_price" \in DOMAIN data THEN data.market_price ELSE 0)

----------------------------------------------------------------------------
(* Portfolio *)

Portfolio_init ==
    [name          |-> "My Portfolio",
     holdings      |-> <<>>,
     currency      |-> "USD",
     saved         |-> TRUE,
     file_path     |-> NoPath,
     history       |-> <<>>,
     history_index |-> -1]

total_value(self) == SumSeq(MapSeq(self.holdings, LAMBDA h : h.total_value))

total_allocation(self) == SumSeq(MapSeq(self.holdings, LAMBDA h : h.allocation))

_update_real_allocations(self) ==
    LET tv == total_value(self)
        upd(h) ==
            LET v  == h.market_price * h.quantity
                ra == IF tv > 0 THEN Rat(v * 100, tv) ELSE Zero
            IN  [h EXCEPT !.total_value     = v,
                          !.real_allocation = ra,
                          !.deviation       = RatSub(ra, FromInt(h.allocation))]
    IN  IF tv = 0
        THEN self
        ELSE [self EXCEPT !.holdings = MapSeq(self.holdings, upd)]

\* the snapshot _save_state builds
state_of(self) ==
    [holdings |-> MapSeq(self.holdings, to_dict),
     name     |-> self.name,
     currency |-> self.currency]

\* _save_state without line 133: the snapshots after the cursor are kept
_save_state_keeps_tail(self) ==
    LET hist == Append(self.history, state_of(self))
    IN  [self EXCEPT !.history = hist, !.history_index = Len(hist) - 1]

\* _save_state without line 135: the cursor stays where it was
_save_state_cursor_kept(self) ==
    LET kept == IF self.history_index < Len(self.history) - 1
                THEN SubSeq(self.history, 1, self.history_index + 1)
                ELSE self.history
    IN  [self EXCEPT !.history = Append(kept, state_of(self))]

_save_state(self) ==
    LET kept == IF self.history_index < Len(self.history) - 1
                THEN SubSeq(self.history, 1, self.history_index + 1)
                ELSE self.history
        hist == Append(kept, state_of(self))
    IN  [self EXCEPT !.history = hist, !.history_index = Len(hist) - 1]

_restore_state(self, state) ==
    _update_real_allocations(
        [self EXCEPT !.name     = state.name,
                     !.currency = state.currency,
                     !.holdings = MapSeq(state.holdings, from_dict)])

add_holding(self, holding) ==
    _save_state(
        [_update_real_allocations(
            [self EXCEPT !.holdings = Append(self.holdings, holding)])
         EXCEPT !.saved = FALSE])


\* Python list indexing: positions -len..len-1 are valid, negative ones count
\* from the end; anything else raises IndexError
index_ok(lst, index) == -Len(lst) <= index /\ index < Len(lst)
position(lst, index) == IF index < 0 THEN Len(lst) + index + 1 ELSE index + 1

del_item(lst, index) ==
    LET k == position(lst, index)
    IN  SubSeq(lst, 1, k - 1) \o SubSeq(lst, k + 1, Len(lst))

remove_holding(self, index) ==
    _save_state(
        [_update_real_allocations(
            [self EXCEPT !.holdings = del_item(self.holdings, index)])
         EXCEPT !.saved = FALSE])

\* edit_holding as it would act if the snapshot under the cursor shared its
\* holding records with self.holdings (line 128 storing h instead of
\* h.to_dict()): the edit shows in that snapshot too
edit_holding_shared(self, index, name, ticker, quantity, allocation) ==
    LET k == position(self.holdings, index)
        c == self.history_index + 1
        shared ==
            IF c >= 1 /\ c <= Len(self.history) /\ k <= Len(self.history[c].holdings)
            THEN [self EXCEPT !.history[c].holdings[k].name       = name,
                              !.history[c].holdings[k].ticker     = ticker,
                              !.history[c].holdings[k].quantity   = quantity,
                              !.history[c].holdings[k].allocation = allocation]
            ELSE self
    IN  _save_state(
            [_update_real_allocations(
                [shared EXCEPT !.holdings[k].name       = name,
                               !.holdings[k].ticker     = ticker,
                               !.holdings[k].quantity   = quantity,
                               !.holdings[k].allocation = allocation])
             EXCEPT !.saved = FALSE])

edit_holding(self, index, name, ticker, quantity, allocation) ==
    LET k == position(self.holdings, index)
    IN  _save_state(
            [_update_real_allocations(
                [self EXCEPT !.holdings[k].name       = name,
                             !.holdings[k].ticker     = ticker,
                             !.holdings[k].quantity   = quantity,
                             !.holdings[k].allocation = allocation])
             EXCEPT !.saved = FALSE])

\* a call of remove_holding / edit_holding with any integer index: the fields
\* after the call and the exception it raised; the list indexing at lines 63 and
\* 69 raises before any field is written
call_remove_holding(self, index) ==
    IF index_ok(self.holdings, index)
    THEN [self |-> remove_holding(self, index), exc |-> "none"]
    ELSE [self |-> self, exc |-> "IndexError"]

call_edit_holding(self, index, name, ticker, quantity, allocation) ==
    IF index_ok(self.holdings, index)
    THEN [self |-> edit_holding(self, index, name, ticker, quantity, allocation),
          exc  |-> "none"]
    ELSE [self |-> self, exc |-> "IndexError"]

\* Portfolio.update_prices with the lookups' outcomes, one per holding: the loop
\* stops at the first lookup that raises, and then line 81 is not reached.
RECURSIVE update_loop(_, _, _)
update_loop(holdings, outcomes, i) ==
    IF i > Len(holdings) THEN [holdings |-> holdings, exc |-> "none"]
    ELSE IF outcomes[i] = LookupFails
         THEN [holdings |-> holdings, exc |-> "ValueError"]
         ELSE update_loop([holdings EXCEPT ![i] = update_price(@, outcomes[i])],
                          outcomes, i + 1)

update_prices(self, outcomes) ==
    LET r == update_loop(self.holdings, outcomes, 1)
        s == [self EXCEPT !.holdings = r.holdings]
    IN  [self |-> IF r.exc = "none" THEN _update_real_allocations(s) ELSE s,
         exc  |-> r.exc]

\* Portfolio.save: the fields after the call, whether it wrote, and what it wrote
save(self, file_path) ==
    LET s1 == IF file_path # NoPath THEN [self EXCEPT !.file_path = file_path] ELSE self
    IN  IF s1.file_path = NoPath
        THEN [self |-> s1, result |-> FALSE, data |-> <<>>]
        ELSE [self   |-> [s1 EXCEPT !.saved = TRUE],
              result |-> TRUE,
              data   |-> [name     |-> s1.name,
                          currency |-> s1.currency,
                          holdings |-> MapSeq(s1.holdings, to_dict)]]

\* A file is unreadable (open raises), not JSON (json.load raises) or a JSON object
json_dump(data) == [kind |-> "json", data |-> data]

\* Portfolio.load of a file's content: the statements run in order, and the first
\* one that raises leaves the assignments before it in place.
load(self, file_path, content) ==
    IF content.kind = "unreadable" THEN [self |-> self, exc |-> "OSError"]
    ELSE IF content.kind # "json" THEN [self |-> self, exc |-> "JSONDecodeError"]
    ELSE LET data == content.data IN
    IF "name" \notin DOMAIN data THEN [self |-> self, exc |-> "KeyError"]
    ELSE LET s1 == [self EXCEPT !.name = data.name] IN
    IF "currency" \notin DOMAIN data THEN [self |-> s1, exc |-> "KeyError"]
    ELSE LET s2 == [s1 EXCEPT !.currency = data.currency] IN
    IF \/ "holdings" \notin DOMAIN data
       \/ \E i \in 1..Len(data.holdings) : ~from_dict_ok(data.holdings[i])
    THEN [self |-> s2, exc |-> "KeyError"]
    ELSE [self |-> _save_state(_update_real_allocations(
                      [s2 EXCEPT !.holdings      = MapSeq(data.holdings, from_dict),
                                 !.file_path     = file_path,
                                 !.saved         = TRUE,
                                 !.history       = <<>>,
                                 !.history_index = -1])),
          exc  |-> "none"]

\* undo with line 141 outside the condition: saved is cleared on every call
undo_always_unsaved(self) ==
    IF self.history_index > 0
    THEN [_restore_state([self EXCEPT !.history_index = @ - 1],
                         self.history[self.history_index])
          EXCEPT !.saved = FALSE]
    ELSE [self EXCEPT !.saved = FALSE]

undo(self) ==
    IF self.history_index > 0
    THEN [_restore_state([self EXCEPT !.history_index = @ - 1],
                         self.history[self.history_index])
          EXCEPT !.saved = FALSE]
    ELSE self

redo(self) ==
    IF self.history_index < Len(self.history) - 1
    THEN [_restore_state([self EXCEPT !.history_index = @ + 1],
                         self.history[self.history_index + 2])
          EXCEPT !.saved = FALSE]
    ELSE self

\* reallocate with new_allocations.get(h.ticker, 0) at line 196: a holding
\* absent from the map loses its target
reallocate_absent_to_zero(self, new_allocations) ==
    LET set(h) == [h EXCEPT !.allocation =
                       IF h.ticker \in DOMAIN new_allocations
                       THEN new_allocations[h.ticker] ELSE 0]
    IN  _save_state(
            [_update_real_allocations(
                [self EXCEPT !.holdings = MapSeq(self.holdings, set)])
             EXCEPT !.saved = FALSE])

\* Portfolio.reallocate: the fields after the call (new_allocations maps some
\* tickers to a new target; dict.get keeps the old one for the others)
reallocate(self, new_allocations) ==
    LET set(h) == [h EXCEPT !.allocation =
                       IF h.ticker \in DOMAIN new_allocations
                       THEN new_allocations[h.ticker] ELSE h.allocation]
    IN  _save_state(
            [_update_real_allocations(
                [self EXCEPT !.holdings = MapSeq(self.holdings, set)])
             EXCEPT !.saved = FALSE])

\* line 164 with the holding's value recomputed from price and quantity
\* instead of read from its total_value field
delta_value_recomputed(h, allocation, total) ==
    RatSub(Rat(allocation * total, 100), FromInt(h.market_price * h.quantity))

\* The three statements suggest_invest, rebalance and reallocate share:
\* (allocation / 100) * total - h.total_value, and that over the price unless
\* the price is 0
delta_value(h, allocation, total) ==
    RatSub(Rat(allocation * total, 100), FromInt(h.total_value))

\* line 165 without its condition
qty_change_unguarded(h, delta) == RatOver(delta, h.market_price)

qty_change(h, delta) ==
    IF h.market_price > 0 THEN RatOver(delta, h.market_price) ELSE Zero

\* the list Portfolio.reallocate returns: one (ticker, qty_change, delta_value)
\* per holding, computed in the loop before _update_real_allocations runs
reallocate_suggestions(self, new_allocations) ==
    LET total == total_value(self)
        sug(h) ==
            LET new_alloc == IF h.ticker \in DOMAIN new_allocations
                             THEN new_allocations[h.ticker] ELSE h.allocation
                delta == delta_value(h, new_alloc, total)
            IN  <<h.ticker, qty_change(h, delta), delta>>
    IN  MapSeq(self.holdings, sug)

rebalance(self) ==
    LET total == total_value(self)
        sug(h) == LET delta == delta_value(h, h.allocation, total)
                  IN  <<h.ticker, qty_change(h, delta), delta>>
    IN  MapSeq(self.holdings, sug)

suggest_invest(self, amount, buy_only) ==
    LET current_total == total_value(self)
        sug(h) == LET delta == delta_value(h, h.allocation, current_total + amount)
                  IN  <<h.ticker, qty_change(h, delta), delta>>
        under_holdings ==
            SelectSeq(self.holdings,
                      LAMBDA h : RatLess(h.real_allocation, FromInt(h.allocation)))
        S == SumSeq(MapSeq(under_holdings, LAMBDA h : h.allocation))
        buy(h) == LET allocated == Rat(h.allocation * amount, S)
                  IN  <<h.ticker, qty_change(h, allocated), allocated>>
    IN  IF total_allocation(self) = 0 THEN <<>>
        ELSE IF ~buy_only THEN MapSeq(self.holdings, sug)
        ELSE IF under_holdings = <<>> THEN <<>>
        ELSE IF S = 0 THEN <<>>
        ELSE MapSeq(under_holdings, buy)

\* as if suggest_invest and rebalance refreshed the derived fields first
advised_refreshing(self) == _update_real_allocations(self)

\* the fields after suggest_invest or rebalance: neither method has an
\* assignment to a field of self or of a holding
advised(self) == self

----------------------------------------------------------------------------
(* PortfolioBalancer handlers that write Portfolio fields themselves *)

update_portfolio_name(self, new_name) ==
    IF new_name # self.name
    THEN _save_state([self EXCEPT !.name = new_name, !.saved = FALSE])
    ELSE self

change_currency(self, currency) ==
    _save_state([self EXCEPT !.currency = currency, !.saved = FALSE])

\* currency_combo.setCurrentText(text) on the window w = [portfolio, combo]: an
\* entry of the selector other than the current one becomes current, and
\* currentTextChanged then runs change_currency; any other text changes nothing
setCurrentText(w, text) ==
    IF text \in Currencies /\ text # w.combo
    THEN [portfolio |-> change_currency(w.portfolio, text), combo |-> text]
    ELSE w

\* the file system after a save
written(fs, r) ==
    IF r.result THEN [fs EXCEPT ![r.self.file_path] = json_dump(r.data)] ELSE fs

\* PortfolioBalancer.save_as_portfolio: the dialog gives a path, or NoPath when
\* it is cancelled
save_as_portfolio(self, fs, dialog_path) ==
    IF dialog_path # NoPath
    THEN LET r == save(self, dialog_path)
         IN  [self |-> r.self, files |-> written(fs, r), result |-> TRUE]
    ELSE [self |-> self, files |-> fs, result |-> FALSE]

save_portfolio(self, fs, dialog_path) ==
    IF self.file_path = NoPath
    THEN save_as_portfolio(self, fs, dialog_path)
    ELSE LET r == save(self, NoPath)
         IN  [self |-> r.self, files |-> written(fs, r), result |-> r.result]

\* PortfolioBalancer.load_portfolio on the window w: reply answers "Save current
\* portfolio before loading?", save_path is what the save dialog gives if it
\* opens, file_path what the open dialog gives (NoPath: cancelled)
load_portfolio(w, fs, reply, save_path, file_path) ==
    LET s  == IF ~w.portfolio.saved /\ reply = "Yes"
              THEN save_portfolio(w.portfolio, fs, save_path)
              ELSE [self |-> w.portfolio, files |-> fs, result |-> FALSE]
        r  == load(s.self, file_path, s.files[file_path])
        w1 == [portfolio |-> r.self, combo |-> w.combo]
    IN  IF file_path = NoPath
        THEN [w |-> [portfolio |-> s.self, combo |-> w.combo],
              name_edit |-> FALSE, files |-> s.files, exc |-> "none",
              loaded |-> FALSE, saved |-> s.result]
        ELSE IF r.exc # "none"
        THEN [w |-> w1, name_edit |-> FALSE, files |-> s.files, exc |-> r.exc,
              loaded |-> FALSE, saved |-> s.result]
        ELSE [w |-> setCurrentText(w1, r.self.currency),
              name_edit |-> TRUE, files |-> s.files, exc |-> "none",
              loaded |-> TRUE, saved |-> s.result]

\* PortfolioBalancer.undo and redo, after the Portfolio call
show_restored(w, self) == setCurrentText([w EXCEPT !.portfolio = self], self.currency)

\* the dict ReallocateDialog.get_allocations returns: one spin box per holding,
\* keyed by ticker, a later holding's replacing an earlier one's of that ticker
get_allocations(holdings, spins) ==
    [t \in {holdings[i].ticker : i \in 1..Len(holdings)} |->
        LET i == CHOOSE i \in 1..Len(holdings) :
                    /\ holdings[i].ticker = t
                    /\ \A j \in 1..Len(holdings) : holdings[j].ticker = t => j <= i
        IN  spins[i]]

RECURSIVE SumOver(_, _)
SumOver(f, S) ==
    IF S = {} THEN 0
    ELSE LET x == CHOOSE x \in S : TRUE IN f[x] + SumOver(f, S \ {x})


----------------------------------------------------------------------------
(* Bookkeeping shared by the actions *)

\* name, currency and every holding's five persisted fields
Persisted(self) ==
    [name     |-> self.name,
     currency |-> self.currency,
     holdings |-> [i \in 1..Len(self.holdings) |->
                     <<self.holdings[i].name, self.holdings[i].ticker,
                       self.holdings[i].quantity, self.holdings[i].allocation,
                       self.holdings[i].market_price>>]]

LastOp == last[1]
raised == last[2]

Mutations == {"add_holding", "remove_holding", "edit_holding", "reallocate",
              "rename", "change_currency"}

NoRun == [phase |-> "off", base |-> Persisted(Portfolio_init), n |-> 0, k |-> 0]

\* A run starts at a fresh or just loaded portfolio, counts the mutations that
\* follow (n) and then the undo() calls that follow those (k); any other
\* operation ends it.
NextRun(op, exc, after) ==
    IF op = "load" /\ exc = "none"
    THEN [phase |-> "mutating", base |-> Persisted(after), n |-> 0, k |-> 0]
    ELSE IF op \in Mutations /\ exc = "none" /\ undo_run.phase = "mutating"
    THEN [undo_run EXCEPT !.n = @ + 1]
    ELSE IF /\ op = "undo"
            /\ undo_run.phase \in {"mutating", "undoing"}
            /\ undo_run.k < undo_run.n
    THEN [undo_run EXCEPT !.phase = "undoing", !.k = @ + 1]
    ELSE NoRun

\* dirty: cleared by an operation that ends with the file and the fields in
\* sync (effect "synced": a save that wrote, a load that returned); set by an
\* operation that ran to its end (effect "ran") and changed a persisted field,
\* appended a snapshot or moved the cursor; left alone by one that raised
\* (effect "aborted")
NextDirty(after, effect) ==
    IF effect = "synced" THEN FALSE
    ELSE IF /\ effect = "ran"
            /\ \/ Persisted(after) # Persisted(portfolio)
               \/ after.history # portfolio.history
               \/ after.history_index # portfolio.history_index
    THEN TRUE
    ELSE dirty

Effect(exc) == IF exc = "none" THEN "ran" ELSE "aborted"

NoCall == [args |-> <<>>, returned |-> <<>>]

FinishWith(op, exc, after, effect, made) ==
    /\ portfolio'  = after
    /\ last'       = <<op, exc>>
    /\ steps'      = steps + 1
    /\ pre_cursor' = <<portfolio.history_index, Len(portfolio.history)>>
    /\ dirty'      = NextDirty(after, effect)
    /\ undo_run'   = NextRun(op, exc, after)
    /\ call'       = made

Finish(op, exc, after, effect) == FinishWith(op, exc, after, effect, NoCall)

\* the behaviour may take one more operation
More == steps < MaxSteps

\* the holdings a caller adds: one share, target 50, no price yet or price 1
NewHoldings ==
    {Holding(n, t, 1, 50, mp) : n \in HoldingNames, t \in Tickers, mp \in {0, 1}}

\* the <<name, ticker, quantity, allocation>> a caller edits a holding to
EditInputs == HoldingNames \X {"AAA"} \X Quantities \X {50}

Indices == -1..MaxHoldings

\* the maps reallocate is given: empty, one ticker, or all tickers to one target
NewAllocations ==
    {[t \in {} |-> 0], [t \in {"AAA"} |-> 0]}
        \cup {[t \in Tickers |-> a] : a \in Allocations}

LookupOutcomes == Prices \cup {LookupFails}

\* the amounts suggest_invest is asked to place
Amounts == {0, 100}

----------------------------------------------------------------------------
(* The file system at start *)

SampleDict == [name |-> "Acme", ticker |-> "AAA", quantity |-> 1,
               allocation |-> 50, market_price |-> 1]
NoPriceDict == [name |-> "Acme", ticker |-> "BBB", quantity |-> 1,
                allocation |-> 50]
NoQuantityDict == [name |-> "Acme", ticker |-> "BBB", allocation |-> 50]

InitialFiles ==
    [p \in Paths |->
        CASE p = "missing.json"    -> [kind |-> "unreadable"]
          [] p = "garbage.json"    -> [kind |-> "invalid"]
          [] p = "nocurrency.json" ->
                json_dump([name |-> "Fund", holdings |-> <<SampleDict>>])
          [] p = "badholding.json" ->
                json_dump([name |-> "Fund", currency |-> "EUR",
                           holdings |-> <<SampleDict, NoQuantityDict>>])
          [] OTHER                 ->
                json_dump([name |-> "Fund", currency |-> "EUR",
                           holdings |-> <<SampleDict, NoPriceDict>>])]

Init ==
    /\ portfolio = Portfolio_init
    /\ files = InitialFiles
    /\ name_edit = Portfolio_init.name
    /\ currency_combo = Portfolio_init.currency
    /\ last = <<"init", "none">>
    /\ steps = 0
    /\ pre_cursor = <<-1, 0>>
    /\ dirty = FALSE
    /\ undo_run = [NoRun EXCEPT !.phase = "mutating"]
    /\ call = NoCall

----------------------------------------------------------------------------
(* Operations of Portfolio and Holding, called by a test harness or a window *)

AddHolding ==
    /\ More
    /\ Len(portfolio.holdings) < MaxHoldings
    /\ \E h \in NewHoldings :
          Finish("add_holding", "none", add_holding(portfolio, h), "ran")
    /\ UNCHANGED <<files, name_edit, currency_combo>>

RemoveHolding ==
    /\ More
    /\ \E index \in Indices :
          LET r == call_remove_holding(portfolio, index)
          IN  Finish("remove_holding", r.exc, r.self, Effect(r.exc))
    /\ UNCHANGED <<files, name_edit, currency_combo>>

EditHolding ==
    /\ More
    /\ \E index \in Indices, e \in EditInputs :
          LET r == call_edit_holding(portfolio, index, e[1], e[2], e[3], e[4])
          IN  Finish("edit_holding", r.exc, r.self, Effect(r.exc))
    /\ UNCHANGED <<files, name_edit, currency_combo>>

Reallocate ==
    /\ More
    /\ \E m \in NewAllocations :
          FinishWith("reallocate", "none", reallocate(portfolio, m), "ran",
                     [args     |-> <<m>>,
                      returned |-> reallocate_suggestions(portfolio, m)])
    /\ UNCHANGED <<files, name_edit, currency_combo>>

UpdatePrices ==
    /\ More
    /\ \E outcomes \in [1..Len(portfolio.holdings) -> LookupOutcomes] :
          LET r == update_prices(portfolio, outcomes)
          IN  Finish("update_prices", r.exc, r.self, Effect(r.exc))
    /\ UNCHANGED <<files, name_edit, currency_combo>>

Save ==
    /\ More
    /\ \E file_path \in SavePaths \cup {NoPath} :
          LET r == save(portfolio, file_path)
          IN  /\ Finish("save", "none", r.self, IF r.result THEN "synced" ELSE "ran")
              /\ files' = IF r.result
                          THEN [files EXCEPT ![r.self.file_path] = json_dump(r.data)]
                          ELSE files
    /\ UNCHANGED <<name_edit, currency_combo>>

Load ==
    /\ More
    /\ \E file_path \in Paths :
          LET r == load(portfolio, file_path, files[file_path])
          IN  Finish("load", r.exc, r.self,
                     IF r.exc = "none" THEN "synced" ELSE "aborted")
    /\ UNCHANGED <<files, name_edit, currency_combo>>

Undo ==
    /\ More
    /\ Finish("undo", "none", undo(portfolio), "ran")
    /\ UNCHANGED <<files, name_edit, currency_combo>>

Redo ==
    /\ More
    /\ Finish("redo", "none", redo(portfolio), "ran")
    /\ UNCHANGED <<files, name_edit, currency_combo>>

\* editingFinished of the name field, holding the text new_name
Rename ==
    /\ More
    /\ \E new_name \in PortfolioNames :
          /\ name_edit' = new_name
          /\ Finish(IF new_name # portfolio.name THEN "rename" ELSE "rename_same",
                    "none", update_portfolio_name(portfolio, new_name), "ran")
    /\ UNCHANGED <<files, currency_combo>>

\* currentTextChanged of the currency selector: the user picked another entry
ChangeCurrency ==
    /\ More
    /\ \E currency \in Currencies \ {currency_combo} :
          /\ currency_combo' = currency
          /\ Finish("change_currency", "none",
                    change_currency(portfolio, currency), "ran")
    /\ UNCHANGED <<files, name_edit>>

Next ==
    \/ AddHolding
    \/ RemoveHolding
    \/ EditHolding
    \/ Reallocate
    \/ UpdatePrices
    \/ Save
    \/ Load
    \/ Undo
    \/ Redo
    \/ Rename
    \/ ChangeCurrency

Spec == Init /\ [][Next]_vars

----------------------------------------------------------------------------
(* The PortfolioBalancer window: its handlers, each with what the user enters
   in its dialogs *)

Window == [portfolio |-> portfolio, combo |-> currency_combo]

\* the dialog's target allocation is left at 50
GuiAddHolding ==
    /\ More
    /\ Len(portfolio.holdings) < MaxHoldings
    /\ \E n \in HoldingNames, t \in Tickers, q \in Quantities,
          outcome \in LookupOutcomes :
          IF outcome = LookupFails
          THEN Finish("gui_add_holding", "ValueError", portfolio, "aborted")
          ELSE Finish("gui_add_holding", "none",
                      add_holding(portfolio,
                                  update_price(Holding(n, t, q, 50, 0), outcome)),
                      "ran")
    /\ UNCHANGED <<files, name_edit, currency_combo>>

\* the selected row names a holding by its position
GuiEditHolding ==
    /\ More
    /\ \E index \in 0..(Len(portfolio.holdings) - 1), e \in EditInputs,
          outcome \in LookupOutcomes :
          LET edited == edit_holding(portfolio, index, e[1], e[2], e[3], e[4])
          IN  Finish("gui_edit_holding",
                     IF outcome = LookupFails THEN "ValueError" ELSE "none",
                     [edited EXCEPT !.holdings[index + 1] = update_price(@, outcome)],
                     "ran")
    /\ UNCHANGED <<files, name_edit, currency_combo>>

GuiRemoveHolding ==
    /\ More
    /\ \E index \in 0..(Len(portfolio.holdings) - 1) :
          Finish("gui_remove_holding", "none", remove_holding(portfolio, index), "ran")
    /\ UNCHANGED <<files, name_edit, currency_combo>>

GuiUpdatePrices ==
    /\ More
    /\ \E outcomes \in [1..Len(portfolio.holdings) -> LookupOutcomes] :
          LET r == update_prices(portfolio, outcomes)
          IN  Finish("gui_update_prices", r.exc, r.self, Effect(r.exc))
    /\ UNCHANGED <<files, name_edit, currency_combo>>

GuiReallocate ==
    /\ More
    /\ \E spins \in [1..Len(portfolio.holdings) -> Allocations] :
          LET new_allocs == get_allocations(portfolio.holdings, spins)
          IN  IF SumOver(new_allocs, DOMAIN new_allocs) > 100
              THEN Finish("gui_reallocate_refused", "none", portfolio, "ran")
              ELSE FinishWith("gui_reallocate", "none",
                              reallocate(portfolio, new_allocs), "ran",
                              [args     |-> <<new_allocs>>,
                               returned |-> reallocate_suggestions(portfolio,
                                                                   new_allocs)])
    /\ UNCHANGED <<files, name_edit, currency_combo>>

GuiSave ==
    /\ More
    /\ \E dialog_path \in SavePaths \cup {NoPath} :
          LET r == save_portfolio(portfolio, files, dialog_path)
          IN  /\ Finish("gui_save", "none", r.self,
                        IF r.result THEN "synced" ELSE "ran")
              /\ files' = r.files
    /\ UNCHANGED <<name_edit, currency_combo>>

GuiSaveAs ==
    /\ More
    /\ \E dialog_path \in SavePaths \cup {NoPath} :
          LET r == save_as_portfolio(portfolio, files, dialog_path)
          IN  /\ Finish("gui_save_as", "none", r.self,
                        IF r.result THEN "synced" ELSE "ran")
              /\ files' = r.files
    /\ UNCHANGED <<name_edit, currency_combo>>

GuiLoad ==
    /\ More
    /\ \E reply \in {"Yes", "No"}, save_path \in SavePaths \cup {NoPath},
          file_path \in Paths \cup {NoPath} :
          LET r == load_portfolio(Window, files, reply, save_path, file_path)
          IN  /\ Finish(IF file_path = NoPath THEN "gui_load_cancelled" ELSE "gui_load",
                        r.exc, r.w.portfolio,
                        IF r.loaded
                        THEN IF r.w.combo = currency_combo THEN "synced" ELSE "ran"
                        ELSE IF r.saved THEN "synced"
                        ELSE Effect(r.exc))
              /\ files' = r.files
              /\ currency_combo' = r.w.combo
              /\ name_edit' = IF r.name_edit THEN r.w.portfolio.name ELSE name_edit

GuiUndo ==
    /\ More
    /\ LET w == show_restored(Window, undo(portfolio))
       IN  /\ Finish("gui_undo", "none", w.portfolio, "ran")
           /\ currency_combo' = w.combo
           /\ name_edit' = w.portfolio.name
    /\ UNCHANGED files

GuiRedo ==
    /\ More
    /\ LET w == show_restored(Window, redo(portfolio))
       IN  /\ Finish("gui_redo", "none", w.portfolio, "ran")
           /\ currency_combo' = w.combo
           /\ name_edit' = w.portfolio.name
    /\ UNCHANGED files

NextGUI ==
    \/ GuiAddHolding
    \/ GuiEditHolding
    \/ GuiRemoveHolding
    \/ GuiUpdatePrices
    \/ GuiReallocate
    \/ GuiSave
    \/ GuiSaveAs
    \/ GuiLoad
    \/ GuiUndo
    \/ GuiRedo
    \/ Rename
    \/ ChangeCurrency

SpecGUI == Init /\ [][NextGUI]_vars

\* Portfolio's own state-changing methods short of undo and redo
NextMethods ==
    \/ AddHolding
    \/ RemoveHolding
    \/ EditHolding
    \/ Reallocate
    \/ UpdatePrices
    \/ Save
    \/ Load

SpecMethods == Init /\ [][NextMethods]_vars


\* in-place changes of the holdings, with undo and redo
NextSnapshots ==
    \/ AddHolding
    \/ EditHolding
    \/ Reallocate
    \/ UpdatePrices
    \/ Undo
    \/ Redo

SpecSnapshots == Init /\ [][NextSnapshots]_vars

\* the six mutations with undo, redo and load
NextHistory ==
    \/ AddHolding
    \/ RemoveHolding
    \/ EditHolding
    \/ Reallocate
    \/ Rename
    \/ ChangeCurrency
    \/ Undo
    \/ Redo
    \/ Load

SpecHistory == Init /\ [][NextHistory]_vars

----------------------------------------------------------------------------
(* The advisory methods, on portfolios built, edited, repriced, retargeted and
   loaded *)

SuggestInvest ==
    /\ More
    /\ \E amount \in Amounts, buy_only \in BOOLEAN :
          FinishWith("suggest_invest", "none", advised(portfolio), "ran",
                     [args     |-> <<amount, buy_only>>,
                      returned |-> suggest_invest(portfolio, amount, buy_only)])
    /\ UNCHANGED <<files, name_edit, currency_combo>>

Rebalance ==
    /\ More
    /\ FinishWith("rebalance", "none", advised(portfolio), "ran",
                  [args |-> <<>>, returned |-> rebalance(portfolio)])
    /\ UNCHANGED <<files, name_edit, currency_combo>>

NextAdvice ==
    \/ AddHolding
    \/ EditHolding
    \/ UpdatePrices
    \/ Reallocate
    \/ Load
    \/ SuggestInvest
    \/ Rebalance

SpecAdvice == Init /\ [][NextAdvice]_vars

----------------------------------------------------------------------------
(* Price refreshes, of one holding and of all *)

\* holdings[index].update_price() with the lookup's outcome
UpdatePrice ==
    /\ More
    /\ \E index \in 0..(Len(portfolio.holdings) - 1), outcome \in LookupOutcomes :
          LET h   == portfolio.holdings[index + 1]
              exc == IF outcome = LookupFails THEN "ValueError" ELSE "none"
          IN  FinishWith("update_price", exc,
                         [portfolio EXCEPT !.holdings[index + 1] =
                                               update_price(h, outcome)],
                         Effect(exc),
                         [args     |-> <<index, outcome>>,
                          returned |-> IF exc = "none" THEN <<>> ELSE <<h.ticker>>])
    /\ UNCHANGED <<files, name_edit, currency_combo>>

NextPrices ==
    \/ AddHolding
    \/ EditHolding
    \/ Load
    \/ UpdatePrice
    \/ UpdatePrices

SpecPrices == Init /\ [][NextPrices]_vars

----------------------------------------------------------------------------
(* Properties *)

\* a snapshot holds this portfolio's name, currency and holdings' persisted fields
SnapshotOf(snapshot, self) ==
    /\ snapshot.name = self.name
    /\ snapshot.currency = self.currency
    /\ Len(snapshot.holdings) = Len(self.holdings)
    /\ \A i \in 1..Len(self.holdings) :
          /\ snapshot.holdings[i].name = self.holdings[i].name
          /\ snapshot.holdings[i].ticker = self.holdings[i].ticker
          /\ snapshot.holdings[i].quantity = self.holdings[i].quantity
          /\ snapshot.holdings[i].allocation = self.holdings[i].allocation
          /\ snapshot.holdings[i].market_price = self.holdings[i].market_price

\* the portfolio's value from the holdings' current prices and quantities
TrueTotal(self) ==
    SumSeq([i \in 1..Len(self.holdings) |->
               self.holdings[i].market_price * self.holdings[i].quantity])

RealAllocationSum(self) ==
    RatSumSeq([i \in 1..Len(self.holdings) |-> self.holdings[i].real_allocation])

\* C1: after N >= 1 mutations from a fresh or just loaded portfolio and then N
\* calls of undo(), name, currency and the holdings' persisted fields are what
\* they were before the first mutation.
C1_UndoRestoresStart ==
    (undo_run.phase = "undoing" /\ undo_run.k = undo_run.n)
        => Persisted(portfolio) = undo_run.base

\* C2: once an operation has returned, if undo() would move the cursor then
\* undo() followed by redo() leaves name, currency and the holdings' persisted
\* fields as they were before the undo().
C2_RedoAfterUndo ==
    (raised = "none" /\ portfolio.history_index > 0)
        => Persisted(redo(undo(portfolio))) = Persisted(portfolio)

\* C3: once a mutation, a price refresh, undo() or redo() has completed,
\* history[history_index] exists and is a snapshot of the current fields.
C3_CursorIsCurrent ==
    ( /\ raised = "none"
      /\ \/ LastOp \in Mutations \cup {"undo", "redo"}
         \/ LastOp = "update_prices" /\ portfolio.holdings # <<>> )
        => /\ 0 <= portfolio.history_index
           /\ portfolio.history_index < Len(portfolio.history)
           /\ SnapshotOf(portfolio.history[portfolio.history_index + 1], portfolio)

\* C4: after a mutating operation returns, the real allocations sum to 100 when
\* the portfolio's value is positive and are all 0 when it is 0.
C4_RealAllocationsSumTo100 ==
    (LastOp \in {"add_holding", "remove_holding", "edit_holding", "reallocate",
                 "undo", "redo", "load", "gui_edit_holding"} /\ raised = "none")
        => /\ TrueTotal(portfolio) > 0
                => RealAllocationSum(portfolio) = FromInt(100)
           /\ TrueTotal(portfolio) = 0
                => \A i \in 1..Len(portfolio.holdings) :
                      portfolio.holdings[i].real_allocation = Zero

\* C5: after a mutating Portfolio operation returns, every holding's total_value
\* is market_price * quantity and total_value() is the sum of those products.
C5_TotalValueIsPriceTimesQuantity ==
    (LastOp \in {"add_holding", "remove_holding", "edit_holding", "reallocate",
                 "update_prices", "undo", "redo", "load"} /\ raised = "none")
        => /\ \A i \in 1..Len(portfolio.holdings) :
                 portfolio.holdings[i].total_value =
                     portfolio.holdings[i].market_price * portfolio.holdings[i].quantity
           /\ total_value(portfolio) = TrueTotal(portfolio)

\* C6: after an operation returns, every holding's deviation is its
\* real_allocation minus its allocation.
C6_DeviationIsRealMinusTarget ==
    (LastOp \in {"add_holding", "edit_holding", "reallocate", "load", "undo", "redo"}
     /\ raised = "none")
        => \A i \in 1..Len(portfolio.holdings) :
              portfolio.holdings[i].deviation =
                  RatSub(portfolio.holdings[i].real_allocation,
                         FromInt(portfolio.holdings[i].allocation))

\* C7: saved is true exactly when no operation has written a persisted field
\* since the last successful save or load.
C7_SavedIffNothingWritten == portfolio.saved <=> ~dirty

\* C8: a mutation performed while the cursor is not at the newest snapshot keeps
\* the snapshots up to the cursor, drops the rest, appends one snapshot of the
\* state after the mutation and leaves the cursor on it, so redo() does nothing.
C8_MutationDropsRedoTail ==
    [][ ( /\ steps' = steps + 1
          /\ last'[1] \in Mutations
          /\ last'[2] = "none"
          /\ portfolio.history_index < Len(portfolio.history) - 1 )
        => /\ Len(portfolio'.history) = portfolio.history_index + 2
           /\ SubSeq(portfolio'.history, 1, portfolio.history_index + 1)
                = SubSeq(portfolio.history, 1, portfolio.history_index + 1)
           /\ SnapshotOf(portfolio'.history[Len(portfolio'.history)], portfolio')
           /\ portfolio'.history_index = Len(portfolio'.history) - 1
           /\ redo(portfolio') = portfolio' ]_vars

\* a mutation has just run on a portfolio that had snapshots after the cursor
C8_Witness ==
    /\ LastOp \in Mutations
    /\ raised = "none"
    /\ 0 <= pre_cursor[1]
    /\ pre_cursor[1] < pre_cursor[2] - 1

\* C10: a load that raises leaves every field of the Portfolio unchanged.
C10_FailedLoadChangesNothing ==
    [][ (steps' = steps + 1 /\ last'[1] = "load" /\ last'[2] # "none")
        => portfolio' = portfolio ]_vars


\* C9: after a load completes, history is the one snapshot of the loaded state,
\* the cursor is on it, saved is true and undo() does nothing.
C9_LoadResetsHistory ==
    (LastOp \in {"load", "gui_load"} /\ raised = "none")
        => /\ Len(portfolio.history) = 1
           /\ SnapshotOf(portfolio.history[1], portfolio)
           /\ portfolio.history_index = 0
           /\ portfolio.saved
           /\ undo(portfolio) = portfolio

\* save(path) on self, then load(path) on the Portfolio `other`, keeps self's
\* name, currency and holdings' persisted fields; save itself changes none
RoundTrips(self, other, path) ==
    LET r == save(self, path)
        l == load(IF other = "self" THEN r.self ELSE Portfolio_init,
                  path, json_dump(r.data))
    IN  /\ r.result
        /\ Persisted(r.self) = Persisted(self)
        /\ l.exc = "none"
        /\ Persisted(l.self) = Persisted(self)

\* C11: in every state, save(path) then load(path), on the same Portfolio or on
\* a new one, yields the same name, currency and holdings' five persisted fields
\* in the same order, and save changes none of them; in particular a save step
\* changes none, and a load step right after a save of that path changes none.
C11_SaveLoadRoundTrip ==
    /\ [](\A path \in SavePaths, other \in {"self", "new"} :
              RoundTrips(portfolio, other, path))
    /\ [][
        /\ (steps' = steps + 1 /\ last'[1] = "save")
              => Persisted(portfolio') = Persisted(portfolio)
        /\ ( /\ steps' = steps + 1
             /\ last = <<"save", "none">>
             /\ portfolio.file_path # NoPath
             /\ last' = <<"load", "none">>
             /\ portfolio'.file_path = portfolio.file_path )
              => Persisted(portfolio') = Persisted(portfolio) ]_vars

\* a load has returned the holdings a save wrote to the file
C11_Witness ==
    /\ last = <<"load", "none">>
    /\ files[portfolio.file_path] # InitialFiles[portfolio.file_path]
    /\ portfolio.holdings # <<>>
    /\ state_of(portfolio) = files[portfolio.file_path].data

\* C12: remove_holding(index) and edit_holding(index, ...) with an index that
\* is not a position 0..len(holdings)-1, negative ones included, raise
\* IndexError and leave every field as it was.
C12_BadIndexRaises ==
    \A index \in Indices :
        index \notin 0..(Len(portfolio.holdings) - 1)
            => /\ call_remove_holding(portfolio, index)
                    = [self |-> portfolio, exc |-> "IndexError"]
               /\ \A e \in EditInputs :
                     call_edit_holding(portfolio, index, e[1], e[2], e[3], e[4])
                       = [self |-> portfolio, exc |-> "IndexError"]

\* the value of a holding: market_price * quantity
Value(h) == h.market_price * h.quantity

\* what the claims call valueDelta and quantityDelta for a holding h, a target
\* percentage and a portfolio total: target/100 * total - value, and that over
\* the price (a quantityDelta is stated only for a price other than 0)
ValueDelta(h, target, total) == RatSub(Rat(target * total, 100), FromInt(Value(h)))

IsTriple(t, h, valueDelta) ==
    /\ t[1] = h.ticker
    /\ t[3] = valueDelta
    /\ h.market_price > 0 => t[2] = RatOver(valueDelta, h.market_price)

\* C13: reallocate(new_allocations) sets the allocation of the holdings whose
\* ticker is a key, leaves the other allocations, every quantity and every price
\* as they were, returns one triple per holding in order with valueDelta =
\* allocation_after/100 * total_value() - the holding's total_value (both as
\* stored when the call starts) and quantityDelta = valueDelta/price, marks the
\* portfolio unsaved and appends one snapshot of the new state after the cursor.
C13_Reallocate ==
    [][ (steps' = steps + 1 /\ last' = <<"reallocate", "none">>)
        => LET m   == call'.args[1]
               old == portfolio.holdings
               new == portfolio'.holdings
           IN  /\ Len(new) = Len(old)
               /\ \A i \in 1..Len(old) :
                     /\ new[i].allocation = IF old[i].ticker \in DOMAIN m
                                            THEN m[old[i].ticker]
                                            ELSE old[i].allocation
                     /\ to_dict([new[i] EXCEPT !.allocation = old[i].allocation])
                          = to_dict(old[i])
               /\ Len(call'.returned) = Len(old)
               /\ \A i \in 1..Len(old) :
                     IsTriple(call'.returned[i], old[i],
                              RatSub(Rat(new[i].allocation * total_value(portfolio), 100),
                                     FromInt(old[i].total_value)))
               /\ ~portfolio'.saved
               /\ portfolio'.history_index = portfolio.history_index + 1
               /\ Len(portfolio'.history) = portfolio.history_index + 2
               /\ SubSeq(portfolio'.history, 1, portfolio.history_index + 1)
                    = SubSeq(portfolio.history, 1, portfolio.history_index + 1)
               /\ SnapshotOf(portfolio'.history[Len(portfolio'.history)], portfolio')
      ]_vars

\* reallocate has just returned for a map that names one holding's ticker and
\* not another's, whose non-zero allocation it kept, with a non-zero valueDelta
C13_Witness ==
    /\ last = <<"reallocate", "none">>
    /\ \E i, j \in 1..Len(portfolio.holdings) :
          /\ portfolio.holdings[i].ticker \in DOMAIN call.args[1]
          /\ portfolio.holdings[j].ticker \notin DOMAIN call.args[1]
          /\ portfolio.holdings[j].allocation # 0
          /\ portfolio.holdings[i].market_price > 0
          /\ call.returned[i][3] # Zero
          /\ call.returned[j][3] # Zero

\* C14: suggest_invest(amount, buy_only) and rebalance() change no field of the
\* Portfolio or of a holding.
C14_AdviceChangesNothing ==
    [][ (steps' = steps + 1 /\ last'[1] \in {"suggest_invest", "rebalance"})
        => portfolio' = portfolio /\ files' = files ]_vars

\* suggest_invest or rebalance has just returned suggestions for a portfolio
\* whose stored total_value fields are not all price * quantity
C14_Witness ==
    /\ LastOp \in {"suggest_invest", "rebalance"}
    /\ call.returned # <<>>
    /\ total_value(portfolio) # TrueTotal(portfolio)

\* a holding's value as a percentage of the portfolio's (0 in a portfolio
\* worth nothing)
RealShare(self, h) ==
    IF TrueTotal(self) > 0 THEN Rat(Value(h) * 100, TrueTotal(self)) ELSE Zero

Underweight(self) ==
    SelectSeq(self.holdings,
              LAMBDA h : RatLess(RealShare(self, h), FromInt(h.allocation)))

\* C15: suggest_invest(amount, buy_only=True) returns, in holdings order, one
\* triple for each holding whose value as a percentage of the portfolio's is
\* below its target allocation, and nothing if there is none; each valueDelta
\* is allocation / (sum of those holdings' allocations) * amount, the
\* valueDeltas sum to amount, and quantityDelta is valueDelta / price.
C15_BuyOnlySharesAmount ==
    [][ ( /\ steps' = steps + 1
          /\ last' = <<"suggest_invest", "none">>
          /\ call'.args[2] )
        => LET under  == Underweight(portfolio)
               S      == SumSeq([i \in 1..Len(under) |-> under[i].allocation])
               amount == call'.args[1]
               got    == call'.returned
           IN  /\ Len(got) = Len(under)
               /\ \A i \in 1..Len(under) :
                     IsTriple(got[i], under[i], Rat(under[i].allocation * amount, S))
               /\ under # <<>>
                     => RatSumSeq([i \in 1..Len(got) |-> got[i][3]]) = FromInt(amount)
      ]_vars

\* C16: with a total allocation other than 0, suggest_invest(amount,
\* buy_only=False) returns one triple per holding in holdings order with
\* valueDelta = allocation/100 * (T + amount) - v and quantityDelta =
\* valueDelta / price, v being market_price * quantity and T the sum of v over
\* the holdings; rebalance() returns the same with amount = 0.
C16_TargetValueDeltas ==
    [][ ( /\ steps' = steps + 1
          /\ total_allocation(portfolio) # 0
          /\ \/ last' = <<"suggest_invest", "none">> /\ ~call'.args[2]
             \/ last' = <<"rebalance", "none">> )
        => LET amount == IF last'[1] = "rebalance" THEN 0 ELSE call'.args[1]
               hs     == portfolio.holdings
               got    == call'.returned
           IN  /\ Len(got) = Len(hs)
               /\ \A i \in 1..Len(hs) :
                     IsTriple(got[i], hs[i],
                              ValueDelta(hs[i], hs[i].allocation,
                                         TrueTotal(portfolio) + amount))
      ]_vars

\* the holdings the triples of the last call are for, in order: all of them,
\* or for buy_only the ones suggest_invest selected
Advised(self, op, args) ==
    IF op = "suggest_invest" /\ args[2]
    THEN SelectSeq(self.holdings,
                   LAMBDA h : RatLess(h.real_allocation, FromInt(h.allocation)))
    ELSE self.holdings

\* C17: suggest_invest (both modes), rebalance and reallocate complete without
\* an arithmetic fault in any state and for any amount, and a returned triple
\* for a holding whose market_price is 0 has quantityDelta 0.
C17_NoArithmeticFault ==
    [][ (steps' = steps + 1
         /\ last'[1] \in {"suggest_invest", "rebalance", "reallocate"})
        => LET got == call'.returned
               hs  == Advised(portfolio, last'[1], call'.args)
           IN  /\ last'[2] = "none"
               /\ got # <<>> => Len(got) = Len(hs)
               /\ \A i \in 1..Len(got) :
                     /\ got[i][2] # Fault
                     /\ got[i][3] # Fault
                     /\ hs[i].market_price = 0 => got[i][2] = Zero
               /\ \A i \in 1..Len(portfolio'.holdings) :
                     /\ portfolio'.holdings[i].real_allocation # Fault
                     /\ portfolio'.holdings[i].deviation # Fault
      ]_vars

\* a call has just returned triples for a portfolio worth nothing that holds a
\* holding with price 0
C17_Witness ==
    /\ LastOp \in {"suggest_invest", "rebalance", "reallocate"}
    /\ call.returned # <<>>
    /\ total_value(portfolio) = 0
    /\ TrueTotal(portfolio) = 0
    /\ \E i \in 1..Len(portfolio.holdings) : portfolio.holdings[i].market_price = 0

\* C18: when update_prices() fails on a lookup, every holding's market_price
\* and total_value are what they were before the call.
C18_AbortedRefreshDiscarded ==
    [][ (steps' = steps + 1 /\ last' = <<"update_prices", "ValueError">>)
        => /\ Len(portfolio'.holdings) = Len(portfolio.holdings)
           /\ \A i \in 1..Len(portfolio.holdings) :
                 /\ portfolio'.holdings[i].market_price
                      = portfolio.holdings[i].market_price
                 /\ portfolio'.holdings[i].total_value
                      = portfolio.holdings[i].total_value
      ]_vars

\* C19: Holding.update_price() on a failed lookup raises an error naming the
\* ticker and leaves the holding's market_price and total_value as they were;
\* on success it sets market_price and total_value = market_price * quantity;
\* either way no other holding changes.
C19_UpdatePriceAtomic ==
    [][ (steps' = steps + 1 /\ last'[1] = "update_price")
        => LET k       == call'.args[1] + 1
               outcome == call'.args[2]
               old     == portfolio.holdings
               new     == portfolio'.holdings
           IN  /\ Len(new) = Len(old)
               /\ \A j \in 1..Len(old) : j # k => new[j] = old[j]
               /\ outcome = LookupFails
                     => /\ last'[2] = "ValueError"
                        /\ call'.returned = <<old[k].ticker>>
                        /\ new[k].market_price = old[k].market_price
                        /\ new[k].total_value = old[k].total_value
               /\ outcome # LookupFails
                     => /\ last'[2] = "none"
                        /\ new[k].market_price = outcome
                        /\ new[k].total_value = outcome * old[k].quantity
      ]_vars

\* update_price has just set the price of one of two holdings
C19_Witness ==
    /\ last = <<"update_price", "none">>
    /\ Len(portfolio.holdings) = 2
    /\ portfolio.holdings[call.args[1] + 1].market_price = call.args[2]
    /\ portfolio.holdings[call.args[1] + 1].quantity > 0
    /\ \E j \in 1..2 : portfolio.holdings[j].market_price # call.args[2]

\* C20: undo() with history_index <= 0 and redo() with history_index =
\* len(history) - 1 raise nothing and leave every field of the Portfolio as it
\* was.
C20_UndoRedoAtEndsDoNothing ==
    [][ ( /\ steps' = steps + 1
          /\ \/ last'[1] = "undo" /\ portfolio.history_index <= 0
             \/ /\ last'[1] = "redo"
                /\ portfolio.history_index = Len(portfolio.history) - 1 )
        => last'[2] = "none" /\ portfolio' = portfolio ]_vars

\* undo() has just been called on a saved portfolio with holdings whose cursor
\* was on the oldest snapshot
C20_Witness ==
    /\ LastOp = "undo"
    /\ pre_cursor[1] = 0
    /\ portfolio.saved
    /\ portfolio.holdings # <<>>

\* C21: a snapshot in history is never changed: an operation that appends a
\* snapshot leaves the snapshots up to the cursor as they were (those after it
\* are dropped), and any other operation short of load leaves the whole history
\* as it was.
C21_SnapshotsImmutable ==
    [][ (steps' = steps + 1 /\ last'[1] # "load")
        => IF last'[1] \in Mutations /\ last'[2] = "none"
           THEN /\ Len(portfolio'.history) > portfolio.history_index + 1
                /\ \A i \in 1..(portfolio.history_index + 1) :
                      portfolio'.history[i] = portfolio.history[i]
           ELSE portfolio'.history = portfolio.history ]_vars

\* a holding has just been edited or retargeted in place with two or more
\* snapshots kept, none of which shows the holdings as they are now
C21_Witness ==
    /\ last \in {<<"edit_holding", "none">>, <<"reallocate", "none">>}
    /\ pre_cursor[1] >= 1
    /\ Len(portfolio.history) >= 3
    /\ ~SnapshotOf(portfolio.history[1], portfolio)
    /\ ~SnapshotOf(portfolio.history[2], portfolio)

\* C22: the window's undo and redo handlers leave history the same sequence and
\* move history_index by at most one, also when the restored currency is not
\* the one the currency selector shows.
C22_GuiUndoRedoKeepHistory ==
    [][ (steps' = steps + 1 /\ last'[1] \in {"gui_undo", "gui_redo"})
        => /\ portfolio'.history = portfolio.history
           /\ portfolio'.history_index - portfolio.history_index \in {-1, 0, 1}
      ]_vars

\* C23: in every reachable state either history is empty and history_index is
\* -1, or history_index is a position of history (0 .. len(history)-1); and
\* right after an operation that calls _save_state (a mutation or a load that
\* completed) history_index is the position of the newest snapshot.
C23_CursorInRange ==
    /\ \/ portfolio.history = <<>> /\ portfolio.history_index = -1
       \/ /\ 0 <= portfolio.history_index
          /\ portfolio.history_index <= Len(portfolio.history) - 1
    /\ (LastOp \in Mutations \cup {"load"} /\ raised = "none")
          => portfolio.history_index = Len(portfolio.history) - 1

\* a load has just completed on a portfolio whose cursor was inside a history
\* of several snapshots
C23_Witness ==
    /\ last = <<"load", "none">>
    /\ pre_cursor[2] >= 2
    /\ 0 <= pre_cursor[1]
    /\ pre_cursor[1] < pre_cursor[2] - 1
    /\ Len(portfolio.history) = 1

\* the sum of the valueDeltas of a returned list of triples
DeltaSum(suggestions) == RatSumSeq(MapSeq(suggestions, LAMBDA t : t[3]))

\* total_allocation/100 * (T + amount) - T, T being total_value()
ConservedSum(self, amount) ==
    RatSub(Rat(total_allocation(self) * (total_value(self) + amount), 100),
           FromInt(total_value(self)))

\* suggest_invest(amount, buy_only=False) or rebalance() has just returned
AdviceStep ==
    /\ steps' = steps + 1
    /\ \/ last' = <<"suggest_invest", "none">> /\ ~call'.args[2]
       \/ last' = <<"rebalance", "none">>

AdviceAmount == IF last'[1] = "rebalance" THEN 0 ELSE call'.args[1]

\* C24 as stated: the valueDeltas of suggest_invest(amount, buy_only=False)
\* and of rebalance() (amount 0) sum to total_allocation/100 * (T + amount) - T,
\* which is amount, and 0 for rebalance, when the target allocations sum to 100.
C24_CashConservation ==
    [][ AdviceStep
        => /\ DeltaSum(call'.returned) = ConservedSum(portfolio, AdviceAmount)
           /\ total_allocation(portfolio) = 100
                 => DeltaSum(call'.returned) = FromInt(AdviceAmount) ]_vars

\* C24 amended: the same sums, except that suggest_invest returns the empty
\* list, whose sum is 0, when total_allocation is 0; rebalance has no such
\* exception.
C24_CashConservationUnlessNoTargets ==
    [][ AdviceStep
        => IF last'[1] = "suggest_invest" /\ total_allocation(portfolio) = 0
           THEN call'.returned = <<>>
           ELSE /\ Len(call'.returned) = Len(portfolio.holdings)
                /\ DeltaSum(call'.returned)
                     = ConservedSum(portfolio, AdviceAmount)
                /\ total_allocation(portfolio) = 100
                     => DeltaSum(call'.returned) = FromInt(AdviceAmount) ]_vars

\* suggest_invest(100, buy_only=False) has just returned deltas for two valued
\* holdings whose targets sum to 100
C24_Witness ==
    /\ last = <<"suggest_invest", "none">>
    /\ call.args = <<100, FALSE>>
    /\ total_allocation(portfolio) = 100
    /\ total_value(portfolio) > 0
    /\ Len(call.returned) = 2
    /\ DeltaSum(call.returned) = FromInt(100)

====
